---- MODULE Spec2Model ----
(***************************************************************************)
(* Dev-RPG backend gateway (src/backend/main.py): the analyze_code fan-out *)
(* over the four analysis backends, score composition, report persistence  *)
(* and user crediting, and the store_report upsert callback.               *)
(***************************************************************************)
EXTENDS Integers, Sequences, FiniteSets, TLC

(***************************************************************************)
(* IEEE-754 binary64 arithmetic, as CPython floats perform it.             *)
(* A non-negative double is held exactly as a natural number of units of   *)
(* 2^-FracBits; naturals wider than 31 bits are little-endian sequences of *)
(* limbs.  Every operation computes the exact result and then rounds it to *)
(* MantissaBits significant bits, ties to even.  Every non-zero value the  *)
(* score computation produces lies in [2^-3, 2^7], so it is a multiple of  *)
(* 2^-FracBits and no exponent under- or overflow can occur.               *)
(***************************************************************************)
LimbBits == 20
LimbBase == 2^LimbBits
MantissaBits == 53
FracBits == 55

BigZero == << >>

RECURSIVE BigTrim(_)
BigTrim(a) ==
    IF a = << >> THEN a
    ELSE IF a[Len(a)] = 0 THEN BigTrim(SubSeq(a, 1, Len(a) - 1)) ELSE a

RECURSIVE BigFromInt(_)
BigFromInt(n) ==
    IF n = 0 THEN << >> ELSE <<n % LimbBase>> \o BigFromInt(n \div LimbBase)

RECURSIVE BigToInt(_)
BigToInt(a) ==
    IF a = << >> THEN 0 ELSE a[1] + LimbBase * BigToInt(Tail(a))

Limb(a, i) == IF i <= Len(a) THEN a[i] ELSE 0

Rest(a) == IF a = << >> THEN << >> ELSE Tail(a)

RECURSIVE BigAddC(_, _, _)
BigAddC(a, b, c) ==
    IF a = << >> /\ b = << >> THEN BigFromInt(c)
    ELSE LET s == Limb(a, 1) + Limb(b, 1) + c
         IN  <<s % LimbBase>> \o BigAddC(Rest(a), Rest(b), s \div LimbBase)

BigAdd(a, b) == BigAddC(a, b, 0)

RECURSIVE BigSubB(_, _, _)
BigSubB(a, b, borrow) ==
    IF a = << >> THEN << >>
    ELSE LET d == a[1] - Limb(b, 1) - borrow
         IN  <<IF d < 0 THEN d + LimbBase ELSE d>>
                 \o BigSubB(Tail(a), Rest(b), IF d < 0 THEN 1 ELSE 0)

\* a - b, for a >= b
BigSub(a, b) == BigTrim(BigSubB(a, b, 0))

RECURSIVE BigMulSmallC(_, _, _)
BigMulSmallC(a, k, c) ==
    IF a = << >> THEN BigFromInt(c)
    ELSE LET p == a[1] * k + c
         IN  <<p % LimbBase>> \o BigMulSmallC(Tail(a), k, p \div LimbBase)

\* a * k for a small natural k (k < 2^11, so that no limb product overflows)
BigMulSmall(a, k) == BigTrim(BigMulSmallC(a, k, 0))

RECURSIVE BigLessFrom(_, _, _)
BigLessFrom(a, b, i) ==
    IF i = 0 THEN FALSE
    ELSE IF a[i] # b[i] THEN a[i] < b[i] ELSE BigLessFrom(a, b, i - 1)

BigLess(a, b) ==
    IF Len(a) # Len(b) THEN Len(a) < Len(b) ELSE BigLessFrom(a, b, Len(a))

BigOdd(a) == a # << >> /\ a[1] % 2 = 1

RECURSIVE BigHalfLimbs(_)
BigHalfLimbs(a) ==
    IF a = << >> THEN << >>
    ELSE <<(a[1] \div 2) + (Limb(a, 2) % 2) * (LimbBase \div 2)>>
             \o BigHalfLimbs(Tail(a))

\* floor(a / 2)
BigHalf(a) == BigTrim(BigHalfLimbs(a))

RECURSIVE BigShl(_, _)
BigShl(a, n) ==
    IF n = 0 \/ a = << >> THEN a
    ELSE IF n >= LimbBits THEN <<0>> \o BigShl(a, n - LimbBits)
    ELSE BigShl(BigMulSmall(a, 2), n - 1)

RECURSIVE BigShr(_, _)
BigShr(a, n) ==
    IF n = 0 \/ a = << >> THEN a
    ELSE IF n >= LimbBits THEN BigShr(Tail(a), n - LimbBits)
    ELSE BigShr(BigHalf(a), n - 1)

RECURSIVE IntBitLen(_)
IntBitLen(n) == IF n = 0 THEN 0 ELSE 1 + IntBitLen(n \div 2)

BigBitLen(a) ==
    IF a = << >> THEN 0 ELSE LimbBits * (Len(a) - 1) + IntBitLen(a[Len(a)])

\* binary long division continued through the k low bits of a limb: h is
\* the quotient and remainder by d of the bits consumed so far, and its
\* remainder is below d at every step
RECURSIVE BigDivLimb(_, _, _, _)
BigDivLimb(h, limb, k, d) ==
    IF k = 0 \/ ~BigLess(h.r, d) THEN h
    ELSE LET bit == (limb \div 2^(k - 1)) % 2
             r2  == BigAdd(BigMulSmall(h.r, 2), BigFromInt(bit))
             q2  == BigMulSmall(h.q, 2)
         IN  IF BigLess(r2, d)
             THEN BigDivLimb([q |-> q2, r |-> r2], limb, k - 1, d)
             ELSE BigDivLimb([q |-> BigAdd(q2, <<1>>), r |-> BigSub(r2, d)],
                             limb, k - 1, d)

\* quotient and remainder of a by d (d # 0), by binary long division from
\* the most significant limb down
RECURSIVE BigDivMod(_, _)
BigDivMod(a, d) ==
    IF BigLess(a, d) THEN [q |-> << >>, r |-> a]
    ELSE BigDivLimb(BigDivMod(Tail(a), d), a[1], LimbBits, d)

\* drop the n low bits of a, keeping the last bit dropped (guard) and
\* whether anything below it was non-zero (sticky)
RECURSIVE RoundShift(_, _, _, _)
RoundShift(a, n, guard, sticky) ==
    IF n = 0 THEN [top |-> a, guard |-> guard, sticky |-> sticky]
    ELSE IF BigOdd(a)
         THEN RoundShift(BigHalf(a), n - 1, TRUE, sticky \/ guard)
         ELSE RoundShift(BigHalf(a), n - 1, FALSE, sticky \/ guard)

\* round a (plus a non-zero fraction below its last bit when sticky) to
\* MantissaBits significant bits, round-half-to-even
RoundNearestEven(a, sticky) ==
    LET n == BigBitLen(a) - MantissaBits
    IN  IF n <= 0 THEN a
        ELSE LET s   == RoundShift(a, n, FALSE, sticky)
                 up  == s.guard /\ (s.sticky \/ BigOdd(s.top))
                 top == IF up THEN BigAdd(s.top, <<1>>) ELSE s.top
             IN  BigShl(top, n)

\* float(n) for a small natural n
FloatOfInt(n) == BigShl(BigFromInt(n), FracBits)

\* n * x with n an int and x a float: the int is converted exactly
FloatMulInt(n, x) == RoundNearestEven(BigMulSmall(x, n), FALSE)

FloatAdd(x, y) == RoundNearestEven(BigAdd(x, y), FALSE)

\* x / y, y # 0: two extra quotient bits are computed before rounding
FloatDiv(x, y) ==
    LET dm == BigDivMod(BigShl(x, FracBits + 2), y)
    IN  BigShr(RoundNearestEven(dm.q, dm.r # << >>), 2)

\* int(x): truncation toward zero of a non-negative float
FloatToInt(x) == BigToInt(BigShr(x, FracBits))

\* the double a decimal literal p/100 denotes (the nearest double)
FloatLiteral(hundredths) == FloatDiv(FloatOfInt(hundredths), FloatOfInt(100))

\* the doubles the literals 0.3, 0.25, 0.2 and 1.5 denote, in units of
\* 2^-FracBits: 0x1.3333333333333p-2, 0x1p-2, 0x1.999999999999ap-3, 0x1.8p+0
Float_0_3 == <<419430, 419430, 9830>>
Float_0_25 == <<0, 0, 8192>>
Float_0_2 == <<629146, 629145, 6553>>
Float_1_5 == <<0, 0, 49152>>

\* sum(...) of floats: starts from int 0 and adds left to right
RECURSIVE FloatSumFrom(_, _)
FloatSumFrom(acc, xs) ==
    IF xs = << >> THEN acc ELSE FloatSumFrom(FloatAdd(acc, Head(xs)), Tail(xs))

FloatSum(xs) == FloatSumFrom(BigZero, xs)

(***************************************************************************)
(* Score composition of analyze_code (main.py 544-592).                    *)
(***************************************************************************)
\* the order in which analyze_code appends to `scores`
Kinds == <<"code_quality", "architecture", "event_loop", "cost">>
KindSet == {Kinds[i] : i \in 1..Len(Kinds)}

\* a sub-report is None or a response body; NoScore marks a body that lacks
\* its kind's score key
NoScore == -1
Null == [kind |-> "null"]
Body(s) == [kind |-> "body", score |-> s]
IsPresent(sub) == sub.kind = "body"
HasScore(sub) == IsPresent(sub) /\ sub.score # NoScore

weights(k) ==
    CASE k = "code_quality" -> Float_0_3
      [] k = "architecture" -> Float_0_25
      [] k = "event_loop"   -> Float_0_2
      [] k = "cost"         -> Float_0_25

\* the kinds analyze_code appends to `scores`, in order
scores(results) == SelectSeq(Kinds, LAMBDA k : HasScore(results[k]))

OverallScore(results) ==
    LET sc == scores(results)
    IN  IF sc # << >>
        THEN LET total_weight == FloatSum([i \in 1..Len(sc) |-> weights(sc[i])])
                 weighted     == FloatSum([i \in 1..Len(sc) |->
                                     FloatMulInt(results[sc[i]].score, weights(sc[i]))])
             IN  FloatToInt(FloatDiv(weighted, total_weight))
        ELSE 0

\* the result key and score field of each backend kind
ScoreField(k) ==
    CASE k = "code_quality" -> "score"
      [] k = "architecture" -> "architecture_score"
      [] k = "event_loop"   -> "event_loop_score"
      [] k = "cost"         -> "efficiency_score"

\* status tiers with the bounds exclusive
Status_Mutant(score) ==
    IF score > 85 THEN "excellent"
    ELSE IF score > 70 THEN "good"
    ELSE IF score > 50 THEN "needs_improvement"
    ELSE "critical"

Status(score) ==
    IF score >= 85 THEN "excellent"
    ELSE IF score >= 70 THEN "good"
    ELSE IF score >= 50 THEN "needs_improvement"
    ELSE "critical"

\* XP that stops growing at the top tier
XpEarned_Mutant(score) == IF score >= 95 THEN 950 ELSE score * 10

XpEarned(score) == score * 10

BadgeName(k) ==
    CASE k = "code_quality" -> "Clean Coder"
      [] k = "architecture" -> "Architect Master"
      [] k = "event_loop"   -> "Async Ninja"
      [] k = "cost"         -> "Optimizer"

\* results[k].get(<score field>, 0)
ScoreOrZero(sub) == IF sub.score = NoScore THEN 0 ELSE sub.score

\* badges in which "Code Legend" is given only with all four others
Badges_Mutant(results, score) ==
    LET own == {BadgeName(k) : k \in {j \in KindSet :
                   IsPresent(results[j]) /\ ScoreOrZero(results[j]) >= 90}}
    IN  own \cup (IF score >= 95 /\ Cardinality(own) = 4 THEN {"Code Legend"} ELSE {})

Badges(results, score) ==
    {BadgeName(k) : k \in {j \in KindSet :
                              IsPresent(results[j]) /\ ScoreOrZero(results[j]) >= 90}}
        \cup (IF score >= 95 THEN {"Code Legend"} ELSE {})

\* calculate_level: the while loop, from (level, xp_for_next, remaining_xp)
RECURSIVE CalculateLevelLoop(_, _, _)
CalculateLevelLoop(level, xp_for_next, remaining_xp) ==
    IF remaining_xp >= xp_for_next
    THEN CalculateLevelLoop(level + 1,
                            FloatToInt(FloatMulInt(xp_for_next, Float_1_5)),
                            remaining_xp - xp_for_next)
    ELSE level

\* a loop that tests remaining_xp > xp_for_next
calculate_level_Mutant(xp) ==
    IF xp = 0 THEN 1 ELSE CalculateLevelLoop(1, 100, xp - 1)

calculate_level(xp) == CalculateLevelLoop(1, 100, xp)

(***************************************************************************)
(* State.                                                                  *)
(***************************************************************************)
\* bounds of the model
MaxClock == 1
MaxRequests == 1

\* request handlers that can be in flight, the users and projects that exist
Slots == {1}
Users == {"u1"}
Projects == {"p1"}
None == "None"

\* the users table outlives the process: a user starts with no XP or with
\* the XP of an earlier report, at the level of that total
InitialXp == {0, 950}

VARIABLES
    app,            \* lifespan: "starting", "running", "stopped"
    db_pool,        \* the global db_pool: "None", "open", or "closed" (the
                    \* pool object after db_pool.close())
    clock,          \* the last datetime.utcnow() read, in whole seconds
    started,        \* number of analyze_code calls begun
    pc,             \* per handler: where analyze_code stands
    cur,            \* per handler: index in Kinds of the backend being called
    request,        \* per handler: project_id and user_id of the request
    calls,          \* per handler and kind: "idle", "pending", "ok" with the body
                    \* the backend sent, or "failed"
    results,        \* per handler: the results dict
    composed,       \* per handler: overall_score, status, xp_earned, badges, report_id
    saved,          \* per handler: "no", or how the INSERT went: "inserted",
                    \* "failed" (the store raised), "duplicate" (report_id taken)
    credited,       \* per handler: "no", or how the UPDATE went: "applied", "failed"
    response,       \* per handler: what the caller received
    reports,        \* table analysis_reports, keyed by report_id
    users,          \* table users: xp_total and level
    last_store,     \* the last store_report call: its payload, whether a row
                    \* with its report_id existed, whether the store worked,
                    \* and the status answered
    call,           \* the last call of a pure function: its name, argument
                    \* and return value
    agent           \* an MCP agent's /analyze handler: its kind, the text the
                    \* LLM returned, the value parsed from it and the answer

handlerVars == <<pc, cur, request, calls, results, composed, saved, credited, response>>
dbVars == <<reports, users>>
vars == <<app, db_pool, clock, started, handlerVars, dbVars, last_store, call, agent>>

UnsetResults == [k \in KindSet |-> Null]
IdleCalls == [k \in KindSet |-> [st |-> "idle", body |-> Null]]
NoComposed == [overall_score |-> 0, status |-> "", xp_earned |-> 0,
               badges |-> {}, report_id |-> 0]
NoRequest == [project_id |-> None, user_id |-> None]
NoResponse == [kind |-> "none"]
NoStore == [kind |-> "none"]

Init ==
    /\ app = "starting"
    /\ db_pool = "None"
    /\ clock = 0
    /\ started = 0
    /\ pc = [s \in Slots |-> "idle"]
    /\ cur = [s \in Slots |-> 0]
    /\ request = [s \in Slots |-> NoRequest]
    /\ calls = [s \in Slots |-> IdleCalls]
    /\ results = [s \in Slots |-> UnsetResults]
    /\ composed = [s \in Slots |-> NoComposed]
    /\ saved = [s \in Slots |-> "no"]
    /\ credited = [s \in Slots |-> "no"]
    /\ response = [s \in Slots |-> NoResponse]
    /\ reports = << >>
    /\ \E xp \in [Users -> InitialXp] :
           users = [u \in Users |-> [xp_total |-> xp[u], level |-> calculate_level(xp[u])]]
    /\ last_store = NoStore
    /\ call = [fn |-> "none"]
    /\ agent = [pc |-> "idle"]

(***************************************************************************)
(* lifespan: the pool is created before the first request is served.       *)
(***************************************************************************)
Startup(ok) ==
    /\ app = "starting"
    /\ app' = "running"
    /\ db_pool' = IF ok THEN "open" ELSE "None"
    /\ UNCHANGED <<clock, started, handlerVars, dbVars, last_store, call, agent>>

\* lifespan after the yield: the server runs it once the requests in flight
\* have been answered and no new one is taken (uvicorn.run, line 958); the
\* pool is closed and db_pool keeps the closed pool
Shutdown ==
    /\ app = "running"
    /\ \A s \in DOMAIN pc : pc[s] \in {"idle", "done"}
    /\ app' = "stopped"
    /\ db_pool' = IF db_pool = "None" THEN "None" ELSE "closed"
    /\ UNCHANGED <<clock, started, handlerVars, dbVars, last_store, call, agent>>

\* an analyze_code that asks for a connection whatever db_pool is
WantsSave_Mutant(s) == request[s].project_id # None

\* the endpoints that read or write the database and nothing else (users,
\* projects, reports, leaderboard, dashboard): 503 without a pool, else a
\* connection is acquired
DbEndpoint(ok) ==
    /\ app = "running"
    /\ call' = [fn       |-> "db_endpoint",
                arg      |-> db_pool,
                acquired |-> db_pool # "None",
                ret      |-> IF db_pool = "None" THEN 503 ELSE IF ok THEN 200 ELSE 500]
    /\ UNCHANGED <<app, db_pool, clock, started, handlerVars, dbVars, last_store, agent>>

(***************************************************************************)
(* analyze_code (main.py 494-651), one action per stretch of code between  *)
(* two awaits.                                                             *)
(***************************************************************************)
AnalyzeStart(s, project_id, user_id) ==
    /\ app = "running"
    /\ pc[s] \in {"idle", "done"}
    /\ started < MaxRequests
    /\ started' = started + 1
    /\ request' = [request EXCEPT ![s] = [project_id |-> project_id, user_id |-> user_id]]
    /\ calls' = [calls EXCEPT ![s] = IdleCalls]
    /\ results' = [results EXCEPT ![s] = UnsetResults]
    /\ composed' = [composed EXCEPT ![s] = NoComposed]
    /\ saved' = [saved EXCEPT ![s] = "no"]
    /\ credited' = [credited EXCEPT ![s] = "no"]
    /\ response' = [response EXCEPT ![s] = NoResponse]
    /\ cur' = [cur EXCEPT ![s] = 1]
    /\ pc' = [pc EXCEPT ![s] = "post"]
    /\ UNCHANGED <<app, db_pool, clock, dbVars, last_store, call, agent>>

\* client.post(...) for the kind at hand: the request goes out
Post(s) ==
    /\ pc[s] = "post"
    /\ calls' = [calls EXCEPT ![s][Kinds[cur[s]]] = [st |-> "pending", body |-> Null]]
    /\ pc' = [pc EXCEPT ![s] = "await"]
    /\ UNCHANGED <<app, db_pool, clock, started, cur, request, results, composed,
                   saved, credited, response, dbVars, last_store, call, agent>>

\* a fan-out that keeps whatever body came with a failed call
ResultOf_Mutant(outcome, body) == body

\* what `results[kind]` becomes for an outcome of the call: the body of a
\* 200 response, None for any other status and for any exception
ResultOf(outcome, body) == IF outcome = "ok" THEN body ELSE Null

\* a fan-out that goes on to the composition one call early
PcAfter_Mutant(i) == IF i < Len(Kinds) - 1 THEN "post" ELSE "compose"

\* after the kind at index i is settled: the next call, or the composition
PcAfter(i) == IF i < Len(Kinds) THEN "post" ELSE "compose"

Outcomes == {"ok", "timeout", "transport", "status"}

\* the awaited call returns or raises
Receive(s, outcome, body) ==
    /\ pc[s] = "await"
    /\ calls' = [calls EXCEPT ![s][Kinds[cur[s]]] =
                    IF outcome = "ok" THEN [st |-> "ok", body |-> body]
                    ELSE [st |-> "failed", body |-> Null]]
    /\ results' = [results EXCEPT ![s][Kinds[cur[s]]] = ResultOf(outcome, body)]
    /\ pc' = [pc EXCEPT ![s] = PcAfter(cur[s])]
    /\ cur' = [cur EXCEPT ![s] = IF cur[s] < Len(Kinds) THEN cur[s] + 1 ELSE 0]
    /\ UNCHANGED <<app, db_pool, clock, started, request, composed, saved, credited,
                   response, dbVars, last_store, call, agent>>

\* `if db_pool and request.project_id`
WantsSave(s) == db_pool # "None" /\ request[s].project_id # None

\* lines 544-594: score, status, XP, badges and report_id; `now` is the
\* second datetime.utcnow() falls in, not before the last one read
Compose(s) ==
    /\ pc[s] = "compose"
    /\ \E score \in {OverallScore(results[s])} :
       \E now \in clock..MaxClock :
           /\ clock' = now
           /\ composed' = [composed EXCEPT ![s] =
                              [overall_score |-> score,
                               status        |-> Status(score),
                               xp_earned     |-> XpEarned(score),
                               badges        |-> Badges(results[s], score),
                               report_id     |-> now]]
    /\ pc' = [pc EXCEPT ![s] = IF WantsSave(s) THEN "acquire" ELSE "return"]
    /\ UNCHANGED <<app, db_pool, started, cur, request, calls, results, saved,
                   credited, response, dbVars, last_store, call, agent>>

\* sub.get(key) on the body of kind k: the score when key is the field that
\* kind carries it under, otherwise None (NoScore)
Get(sub, key, k) == IF key = ScoreField(k) THEN sub.score ELSE NoScore

\* the row analyze_code inserts (lines 610-620)
AnalyzeRow(s) ==
    [report_id     |-> composed[s].report_id,
     project_id    |-> request[s].project_id,
     overall_score |-> composed[s].overall_score,
     status        |-> composed[s].status,
     scores        |-> [k \in KindSet |->
                           IF IsPresent(results[s][k])
                           THEN Get(results[s][k], ScoreField(k), k) ELSE NoScore],
     sub_reports   |-> results[s],
     xp_earned     |-> composed[s].xp_earned,
     badges_earned |-> composed[s].badges]

\* `async with db_pool.acquire() as conn`; a failure is caught at line 634
Acquire(s, ok) ==
    /\ pc[s] = "acquire"
    /\ pc' = [pc EXCEPT ![s] = IF ok THEN "insert" ELSE "return"]
    /\ saved' = [saved EXCEPT ![s] = IF ok THEN "no" ELSE "failed"]
    /\ UNCHANGED <<app, db_pool, clock, started, cur, request, calls, results, composed,
                   credited, response, dbVars, last_store, call, agent>>

\* the INSERT: it raises when the store fails and when the report_id is
\* taken (report_id is the conflict target of line 775, so it is unique);
\* either way the exception is caught at line 634 and the UPDATE is skipped
Insert(s, ok) ==
    /\ pc[s] = "insert"
    /\ IF ok /\ composed[s].report_id \notin DOMAIN reports
       THEN /\ reports' = (composed[s].report_id :> AnalyzeRow(s)) @@ reports
            /\ saved' = [saved EXCEPT ![s] = "inserted"]
            /\ pc' = [pc EXCEPT ![s] =
                         IF request[s].user_id # None THEN "update" ELSE "return"]
       ELSE /\ saved' = [saved EXCEPT ![s] = IF ok THEN "duplicate" ELSE "failed"]
            /\ pc' = [pc EXCEPT ![s] = "return"]
            /\ UNCHANGED reports
    /\ UNCHANGED <<app, db_pool, clock, started, cur, request, calls, results, composed,
                   credited, response, users, last_store, call, agent>>

\* the level analyze_code writes for a user whose total becomes new_total
\* after xp_earned is added (line 632)
CreditLevel(xp_earned, new_total) == calculate_level(xp_earned)

\* an UPDATE that writes the XP of the report over the user's total
Update_Mutant(s, ok) ==
    /\ pc[s] = "update"
    /\ IF ok
       THEN /\ users' = [u \in Users |->
                   IF u = request[s].user_id
                   THEN [xp_total |-> composed[s].xp_earned,
                         level    |-> CreditLevel(composed[s].xp_earned,
                                          composed[s].xp_earned)]
                   ELSE users[u]]
            /\ credited' = [credited EXCEPT ![s] = "applied"]
       ELSE /\ credited' = [credited EXCEPT ![s] = "failed"]
            /\ UNCHANGED users
    /\ pc' = [pc EXCEPT ![s] = "return"]
    /\ UNCHANGED <<app, db_pool, clock, started, cur, request, calls, results, composed,
                   saved, response, reports, last_store, call, agent>>

\* UPDATE users SET xp_total = xp_total + $1, level = $2 WHERE id = $3: one
\* statement, which the store applies to the row as it stands
Update(s, ok) ==
    /\ pc[s] = "update"
    /\ IF ok
       THEN /\ users' = [u \in Users |->
                   IF u = request[s].user_id
                   THEN [xp_total |-> users[u].xp_total + composed[s].xp_earned,
                         level    |-> CreditLevel(composed[s].xp_earned,
                                          users[u].xp_total + composed[s].xp_earned)]
                   ELSE users[u]]
            /\ credited' = [credited EXCEPT ![s] = "applied"]
       ELSE /\ credited' = [credited EXCEPT ![s] = "failed"]
            /\ UNCHANGED users
    /\ pc' = [pc EXCEPT ![s] = "return"]
    /\ UNCHANGED <<app, db_pool, clock, started, cur, request, calls, results, composed,
                   saved, response, reports, last_store, call, agent>>

\* the AnalysisReport returned at lines 637-651
AnalysisReport(s) ==
    [kind          |-> "report",
     report_id     |-> composed[s].report_id,
     overall_score |-> composed[s].overall_score,
     status        |-> composed[s].status,
     subs          |-> results[s],
     rpg_summary   |-> [xp_earned     |-> composed[s].xp_earned,
                        badges_earned |-> composed[s].badges,
                        level_up      |-> composed[s].overall_score >= 90]]

Return(s) ==
    /\ pc[s] = "return"
    /\ response' = [response EXCEPT ![s] = AnalysisReport(s)]
    /\ pc' = [pc EXCEPT ![s] = "done"]
    /\ UNCHANGED <<app, db_pool, clock, started, cur, request, calls, results, composed,
                   saved, credited, dbVars, last_store, call, agent>>
(***************************************************************************)
(* store_report (main.py 756-801).  A payload is the posted dict:          *)
(* report_id, overall_score, status, the four sub-report entries (a body,  *)
(* null, or the key missing) and rpg_summary.                              *)
(***************************************************************************)
Missing == [kind |-> "missing"]

\* report.get(key, {}).get('score'): evaluating it raises when the value is null
StoreRaises(report) == \E k \in KindSet : report.subs[k] = Null

\* the values bound to $1..$13 (lines 783-795)
StoreRow(report) ==
    [report_id     |-> report.report_id,
     project_id    |-> None,
     overall_score |-> report.overall_score,
     status        |-> report.status,
     scores        |-> [k \in KindSet |->
                           IF IsPresent(report.subs[k])
                           THEN Get(report.subs[k], "score", k) ELSE NoScore],
     sub_reports   |-> [k \in KindSet |->
                           IF IsPresent(report.subs[k]) THEN report.subs[k] ELSE Null],
     xp_earned     |-> report.rpg_summary.xp_earned,
     badges_earned |-> report.rpg_summary.badges_earned]

\* INSERT ... ON CONFLICT (report_id) DO UPDATE SET ... (lines 769-781)
Upsert(table, row) ==
    IF row.report_id \in DOMAIN table
    THEN [table EXCEPT ![row.report_id] =
             [@ EXCEPT !.overall_score = row.overall_score,
                       !.status        = row.status,
                       !.sub_reports   = row.sub_reports]]
    ELSE (row.report_id :> row) @@ table

StoreAnswer(report, ok, status) ==
    [kind |-> "call", report |-> report, existed |-> report.report_id \in DOMAIN reports,
     db_ok |-> ok, status |-> status]

\* a store_report whose failed write leaves its row behind
StoreReport_Mutant(report, ok) ==
    /\ app = "running"
    /\ IF db_pool = "None"
       THEN /\ last_store' = StoreAnswer(report, ok, "warning")
            /\ UNCHANGED reports
       ELSE /\ reports' = Upsert(reports, StoreRow(report))
            /\ last_store' = StoreAnswer(report, ok,
                                 IF ok /\ ~StoreRaises(report) THEN "success" ELSE "error")
    /\ UNCHANGED <<app, db_pool, clock, started, handlerVars, users, call, agent>>

\* the handler: without a pool it answers a warning; a write that raises is
\* caught at line 799, nothing of the statement being kept
StoreReport(report, ok) ==
    /\ app = "running"
    /\ IF db_pool = "None"
       THEN /\ last_store' = StoreAnswer(report, ok, "warning")
            /\ UNCHANGED reports
       ELSE IF ok /\ ~StoreRaises(report)
       THEN /\ reports' = Upsert(reports, StoreRow(report))
            /\ last_store' = StoreAnswer(report, ok, "success")
       ELSE /\ last_store' = StoreAnswer(report, ok, "error")
            /\ UNCHANGED reports
    /\ UNCHANGED <<app, db_pool, clock, started, handlerVars, users, call, agent>>

\* the payload an AnalysisReport makes when it is posted unchanged
PayloadOf(r) ==
    [report_id     |-> r.report_id,
     overall_score |-> r.overall_score,
     status        |-> r.status,
     subs          |-> r.subs,
     rpg_summary   |-> r.rpg_summary]

\* the caller of analyze_code posts the report it received to /api/reports
PostBack(s, ok) ==
    /\ response[s].kind = "report"
    /\ StoreReport(PayloadOf(response[s]), ok)
(***************************************************************************)
(* GET /health (main.py 253-288) and POST /api/mcp/{service_name}/analyze  *)
(* (main.py 946-952).                                                      *)
(***************************************************************************)
\* the keys of MCP_SERVICES
Services == {"lighthouse", "code_quality", "architect", "event_loop", "cost"}

\* check_service_health for what GET {url}/health does: status 200, another
\* status, or an exception
check_service_health(probe) ==
    CASE probe = "200"    -> "healthy"
      [] probe = "other"  -> "degraded"
      [] probe = "raises" -> "unavailable"

\* an overall status in which a database that is down hides the backends
HealthOverall_Mutant(db_status, mcp_statuses) ==
    IF db_status # "healthy" THEN "degraded"
    ELSE IF \A n \in DOMAIN mcp_statuses : mcp_statuses[n] = "unavailable" THEN "critical"
    ELSE "healthy"

\* lines 275-279
HealthOverall(db_status, mcp_statuses) ==
    IF \A n \in DOMAIN mcp_statuses : mcp_statuses[n] = "unavailable" THEN "critical"
    ELSE IF db_status # "healthy" THEN "degraded"
    ELSE "healthy"

\* health_check; db_ok says whether acquire and SELECT 1 work
HealthCheck(db_ok, ollama, probes) ==
    /\ app = "running"
    /\ LET db_status == IF db_pool # "None" /\ db_ok THEN "healthy" ELSE "unavailable"
           mcp_statuses == [n \in Services |-> check_service_health(probes[n])]
       IN  call' = [fn  |-> "health_check",
                    arg |-> db_pool,
                    ret |-> [status   |-> HealthOverall(db_status, mcp_statuses),
                             database |-> db_status,
                             ollama   |-> check_service_health(ollama),
                             mcps     |-> mcp_statuses]]
    /\ UNCHANGED <<app, db_pool, clock, started, handlerVars, dbVars, last_store, agent>>

\* a gateway that takes every name for a configured one
Configured_Mutant(service_name) == TRUE

\* `service_name not in MCP_SERVICES` (line 949)
Configured(service_name) == service_name \in Services

\* direct_mcp_analyze with call_mcp_service: 404 for a name that is not
\* configured; ValueError, which nothing catches, for a name without a url;
\* else the POST, a timeout of which gives 504 and any other failure 503
DirectAnalyze(service_name, outcome) ==
    /\ app = "running"
    /\ call' = [fn   |-> "direct_mcp_analyze",
                arg  |-> service_name,
                sent |-> Configured(service_name) /\ service_name \in Services,
                ret  |-> IF ~Configured(service_name) THEN 404
                         ELSE IF service_name \notin Services THEN 500
                         ELSE IF outcome = "ok" THEN 200
                         ELSE IF outcome = "timeout" THEN 504
                         ELSE 503]
    /\ UNCHANGED <<app, db_pool, clock, started, handlerVars, dbVars, last_store, agent>>

(***************************************************************************)
(* extract_json_from_response (llm_client.py 159-187; ollama_utils.py       *)
(* 61-90 is the same code).  A text is a sequence of lexemes, white space   *)
(* between them: the fence ```, the tag json written right after a fence,   *)
(* braces, brackets, a member key with its colon, a scalar literal, and a   *)
(* word of prose.  Commas are left out.                                     *)
(***************************************************************************)
Fence == [t |-> "fence"]
Tag == [t |-> "json"]
LBrace == [t |-> "lbrace"]
RBrace == [t |-> "rbrace"]
LBracket == [t |-> "lbracket"]
RBracket == [t |-> "rbracket"]
Word == [t |-> "word"]
\* a stretch of n characters of prose
Prose(n) == [t |-> "word", n |-> n]
Key(k) == [t |-> "key", k |-> k]
Scalar(v) == [t |-> "scalar", v |-> v]

\* JSON values as json.loads returns them
JInt(n) == [type |-> "int", int |-> n]
JStr(str) == [type |-> "str", str |-> str]
JNull == [type |-> "null"]
JObj(fields) == [type |-> "object", fields |-> fields]
JArr(items) == [type |-> "array", items |-> items]

\* json.loads raising JSONDecodeError
ParseFail == [ok |-> FALSE]

\* json.loads from lexeme i on: a value and the index after it
RECURSIVE ParseValue(_, _)
RECURSIVE ParseMembers(_, _, _)
RECURSIVE ParseItems(_, _, _)
ParseValue(toks, i) ==
    IF i > Len(toks) THEN ParseFail
    ELSE IF toks[i].t = "scalar" THEN [ok |-> TRUE, val |-> toks[i].v, next |-> i + 1]
    ELSE IF toks[i].t = "lbrace" THEN ParseMembers(toks, i + 1, << >>)
    ELSE IF toks[i].t = "lbracket" THEN ParseItems(toks, i + 1, << >>)
    ELSE ParseFail

\* the members of an object; a key given twice keeps its last value
ParseMembers(toks, i, fields) ==
    IF i > Len(toks) THEN ParseFail
    ELSE IF toks[i].t = "rbrace" THEN [ok |-> TRUE, val |-> JObj(fields), next |-> i + 1]
    ELSE IF toks[i].t = "key"
         THEN LET r == CHOOSE x \in {ParseValue(toks, i + 1)} : TRUE
              IN  IF r.ok THEN ParseMembers(toks, r.next, (toks[i].k :> r.val) @@ fields)
                  ELSE ParseFail
    ELSE ParseFail

\* the items of an array
ParseItems(toks, i, items) ==
    IF i > Len(toks) THEN ParseFail
    ELSE IF toks[i].t = "rbracket" THEN [ok |-> TRUE, val |-> JArr(items), next |-> i + 1]
    ELSE LET r == CHOOSE x \in {ParseValue(toks, i)} : TRUE
         IN  IF r.ok THEN ParseItems(toks, r.next, Append(items, r.val))
             ELSE ParseFail

\* json.loads(text): the text must be one value and nothing else
JsonLoads(toks) ==
    LET r == CHOOSE x \in {ParseValue(toks, 1)} : TRUE
    IN  IF r.ok /\ r.next = Len(toks) + 1 THEN [ok |-> TRUE, val |-> r.val] ELSE ParseFail

\* the first index from i on of a lexeme t, 0 if there is none
FirstAt(toks, i, t) ==
    LET at == {j \in i..Len(toks) : toks[j].t = t}
    IN  IF at = {} THEN 0 ELSE CHOOSE j \in at : \A m \in at : j <= m

\* the last index of a lexeme t, 0 if there is none
LastAt(toks, t) ==
    LET at == {j \in 1..Len(toks) : toks[j].t = t}
    IN  IF at = {} THEN 0 ELSE CHOOSE j \in at : \A m \in at : j >= m

\* the first index from i on where a fence opens (```json when tagged)
FenceStart(toks, i, tagged) ==
    LET at == {j \in i..Len(toks) :
                  /\ toks[j].t = "fence"
                  /\ tagged => (j < Len(toks) /\ toks[j + 1].t = "json")}
    IN  IF at = {} THEN 0 ELSE CHOOSE j \in at : \A m \in at : j <= m

\* re.findall of ```json\s*([\s\S]*?)\s*``` (tagged) or ```\s*([\s\S]*?)\s*```
\* from lexeme i on: the groups of the non-overlapping matches, left to
\* right, each running to the first fence after its opening
RECURSIVE FenceBlocks(_, _, _)
FenceBlocks(toks, i, tagged) ==
    LET p  == FenceStart(toks, i, tagged)
        cs == p + (IF tagged THEN 2 ELSE 1)
        q  == FirstAt(toks, cs, "fence")
    IN  IF p = 0 \/ q = 0 THEN << >>
        ELSE <<SubSeq(toks, cs, q - 1)>> \o FenceBlocks(toks, q + 1, tagged)

\* re.findall of \{[\s\S]*\} or \[[\s\S]*\]: from the first opening to the
\* last closing lexeme, if the one stands before the other
GreedySpan(toks, open, close) ==
    LET f == FirstAt(toks, 1, open)
        l == LastAt(toks, close)
    IN  IF f # 0 /\ l > f THEN <<SubSeq(toks, f, l)>> ELSE << >>

Labelled(strategy, blocks) ==
    [i \in 1..Len(blocks) |-> [strategy |-> strategy, toks |-> blocks[i]]]

\* the strategies with the array span tried before the object span
Candidates_Mutant(text) ==
    Labelled("json_fence", FenceBlocks(text, 1, TRUE))
        \o Labelled("fence", FenceBlocks(text, 1, FALSE))
        \o Labelled("array", GreedySpan(text, "lbracket", "rbracket"))
        \o Labelled("object", GreedySpan(text, "lbrace", "rbrace"))
        \o Labelled("whole", <<text>>)

\* the strings handed to json.loads, in the order they are tried
Candidates(text) ==
    Labelled("json_fence", FenceBlocks(text, 1, TRUE))
        \o Labelled("fence", FenceBlocks(text, 1, FALSE))
        \o Labelled("object", GreedySpan(text, "lbrace", "rbrace"))
        \o Labelled("array", GreedySpan(text, "lbracket", "rbracket"))
        \o Labelled("whole", <<text>>)

\* response[:500]: the first 500 characters of the text, a character being a
\* lexeme or one of the n characters of a stretch of prose
RawLimit == 500

RECURSIVE Slice(_, _)
Slice(text, limit) ==
    IF Len(text) = 0 \/ limit = 0 THEN << >>
    ELSE LET width == IF "n" \in DOMAIN Head(text) THEN Head(text).n ELSE 1
         IN  IF width <= limit THEN <<Head(text)>> \o Slice(Tail(text), limit - width)
             ELSE <<Prose(limit)>>

\* what is returned when nothing parses
Sentinel(text) ==
    JObj([error |-> JStr("Failed to parse LLM response"),
          raw_response |-> [type |-> "str", text |-> Slice(text, RawLimit)]])

\* the parse of the first candidate that parses, with the strategy it came from
RECURSIVE FirstParse(_, _, _)
FirstParse(text, cands, i) ==
    IF i > Len(cands) THEN [strategy |-> "none", val |-> Sentinel(text)]
    ELSE LET r == CHOOSE x \in {JsonLoads(cands[i].toks)} : TRUE
         IN  IF r.ok THEN [strategy |-> cands[i].strategy, val |-> r.val]
             ELSE FirstParse(text, cands, i + 1)

Extraction(text) == FirstParse(text, Candidates(text), 1)

extract_json_from_response(text) == Extraction(text).val

(***************************************************************************)
(* The /analyze handler of the four MCP agents.  Each asks the LLM for a   *)
(* text, recovers a JSON value from it and builds its response from that   *)
(* value; any exception on the way is answered with HTTP 500.              *)
(***************************************************************************)
\* the list fields of the LLM body a backend walks, in the order it walks them
ListFields(k) ==
    CASE k = "code_quality" -> <<"issues">>
      [] k = "architecture" -> <<"detected_layers", "dependency_issues">>
      [] k = "event_loop"   -> <<"blocking_operations">>
      [] k = "cost"         -> <<"complexity_breakdown", "cost_factors">>

ListFieldSet(k) == {ListFields(k)[i] : i \in 1..Len(ListFields(k))}

\* the required string fields of an entry of list f with what stands in for
\* a field the LLM left out
EntryDefaults(f) ==
    CASE f = "issues" ->
             [type |-> "unknown", severity |-> "medium", message |-> "No description"]
      [] f = "detected_layers" -> [name |-> "unknown"]
      [] f = "dependency_issues" ->
             [type |-> "unknown", severity |-> "medium", source |-> "unknown",
              message |-> "No description"]
      [] f = "blocking_operations" ->
             [type |-> "unknown", severity |-> "medium", operation |-> "unknown",
              message |-> "Blocking operation detected"]
      [] f = "complexity_breakdown" ->
             [function_name |-> "unknown", time_complexity |-> "O(?)",
              space_complexity |-> "O(?)", explanation |-> ""]
      [] f = "cost_factors" ->
             [category |-> "compute", impact |-> "Medium", description |-> ""]

\* dict.get(key, default)
DictGet(obj, key, default) ==
    IF key \in DOMAIN obj.fields THEN obj.fields[key] ELSE default

\* walking the value of a list field and calling .get on each element: an
\* int or None cannot be walked; the elements of a str are its characters
\* and those of a dict its keys, neither of which has .get
ListRaises(raw) ==
    CASE raw.type = "array" -> \E i \in 1..Len(raw.items) : raw.items[i].type # "object"
      [] raw.type = "object" -> DOMAIN raw.fields # {}
      [] raw.type = "str" -> raw.str # ""
      [] OTHER -> TRUE

\* the model objects built from the elements of list f
ListEntries(f, raw) ==
    IF raw.type = "array"
    THEN [i \in 1..Len(raw.items) |->
             [key \in DOMAIN EntryDefaults(f) |->
                 IF key \in DOMAIN raw.items[i].fields THEN raw.items[i].fields[key].str
                 ELSE EntryDefaults(f)[key]]]
    ELSE << >>

\* key in parsed: a key of a dict, an element of a list, a part of a str (the
\* strings of the model are single words, none a part of another)
In(key, parsed) ==
    CASE parsed.type = "object" -> key \in DOMAIN parsed.fields
      [] parsed.type = "array" ->
             \E i \in 1..Len(parsed.items) :
                 parsed.items[i].type = "str" /\ parsed.items[i].str = key
      [] parsed.type = "str" -> parsed.str = key

\* the test the handlers take for "the parser failed"
IsSentinel(parsed) == In("error", parsed) /\ In("raw_response", parsed)

\* int(value): the integer, the value of a decimal string, or
\* ValueError/TypeError
PyInt(value) ==
    LET decimals == ("85" :> 85)
    IN  IF value.type = "int" THEN [ok |-> TRUE, val |-> value.int]
        ELSE IF value.type = "str" /\ value.str \in DOMAIN decimals
             THEN [ok |-> TRUE, val |-> decimals[value.str]]
        ELSE [ok |-> FALSE]

\* the clamp without its lower and upper limit
Clamp_Mutant(v) == v

\* min(100, max(0, v))
Clamp(v) ==
    LET lifted == IF v >= 0 THEN v ELSE 0
    IN  IF lifted <= 100 THEN lifted ELSE 100

\* HTTPException(500) of the handler's except clause

\* the response model: the score must lie in 0..100, else ValidationError
Validated(k, score, lists, summary) ==
    IF score \in 0..100
    THEN [status |-> 200, score |-> score, lists |-> lists, summary |-> summary]
    ELSE [status |-> 500]

\* the answer to a text that gave the sentinel: score 50 and, except from
\* the cost backend, one synthetic entry in the list of issues
Degraded(k) ==
    LET lists ==
            CASE k = "code_quality" ->
                     [issues |-> <<[type |-> "analysis_error", severity |-> "medium",
                                    message |-> "Could not fully analyze code - LLM response parsing failed"]>>]
              [] k = "architecture" ->
                     [detected_layers |-> << >>,
                      dependency_issues |->
                          <<[type |-> "analysis_error", severity |-> "medium",
                             source |-> "unknown",
                             message |-> "Could not fully analyze architecture - LLM response parsing failed"]>>]
              [] k = "event_loop" ->
                     [blocking_operations |->
                          <<[type |-> "analysis_error", severity |-> "medium",
                             operation |-> "unknown",
                             message |-> "Could not fully analyze - LLM response parsing failed"]>>]
              [] k = "cost" -> [complexity_breakdown |-> << >>, cost_factors |-> << >>]
    IN  Validated(k, 50, lists, "Analysis incomplete due to parsing error")

\* the answer built from the fields of parsed
Built(k, parsed) ==
    IF \E f \in ListFieldSet(k) : ListRaises(DictGet(parsed, f, JArr(<< >>)))
    THEN [status |-> 500]
    ELSE LET score == PyInt(DictGet(parsed, ScoreField(k), JInt(50)))
         IN  IF ~score.ok THEN [status |-> 500]
             ELSE Validated(k, Clamp(score.val),
                            [f \in ListFieldSet(k) |->
                                ListEntries(f, DictGet(parsed, f, JArr(<< >>)))],
                            DictGet(parsed, "summary", JStr("Analysis complete")).str)

\* the handler from the parsed value on; `in` raises TypeError for an int or
\* None, .get AttributeError for what is no dict
Answer(k, parsed) ==
    IF parsed.type \in {"int", "null"} THEN [status |-> 500]
    ELSE IF IsSentinel(parsed) THEN Degraded(k)
    ELSE IF parsed.type # "object" THEN [status |-> 500]
    ELSE Built(k, parsed)

\* a retry that gives up one attempt later
StopAfterAttempt_Mutant(attempt_number) == attempt_number >= 4

\* @retry(stop=stop_after_attempt(3))
StopAfterAttempt(attempt_number) == attempt_number >= 3

\* POST /analyze up to the end of ollama_client.generate, one attempt of it a
\* step: the attempt returns a text, or it raises, and then it is made again
\* unless the retry stops, in which case RetryError reaches the handler's
\* except clause
AgentGenerate(k, ok, text) ==
    /\ agent.pc \in {"idle", "generating"}
    /\ agent.pc = "generating" => agent.kind = k
    /\ LET attempt_number == IF agent.pc = "idle" THEN 1 ELSE agent.attempts + 1
       IN  agent' = IF ok
                    THEN [pc |-> "generated", kind |-> k, attempts |-> attempt_number,
                          generated |-> TRUE, raw_response |-> text,
                          parsed |-> JNull, answer |-> [status |-> 0]]
                    ELSE [pc |-> IF StopAfterAttempt(attempt_number)
                                 THEN "answered" ELSE "generating",
                          kind |-> k, attempts |-> attempt_number,
                          generated |-> FALSE, raw_response |-> << >>,
                          parsed |-> JNull,
                          answer |-> IF StopAfterAttempt(attempt_number)
                                     THEN [status |-> 500] ELSE [status |-> 0]]
    /\ UNCHANGED <<app, db_pool, clock, started, handlerVars, dbVars, last_store, call>>

\* the rest of the handler: parse the text and answer
AgentAnswer ==
    /\ agent.pc = "generated"
    /\ \E parsed \in {extract_json_from_response(agent.raw_response)} :
           agent' = [agent EXCEPT !.pc = "answered",
                                  !.parsed = parsed,
                                  !.answer = Answer(agent.kind, parsed)]
    /\ UNCHANGED <<app, db_pool, clock, started, handlerVars, dbVars, last_store, call>>

(***************************************************************************)
(* Specifications.                                                         *)
(***************************************************************************)
\* scores the backends answer with in Spec
Bodies == {Body(95)}

Next ==
    \/ \E ok \in BOOLEAN : Startup(ok)
    \/ \E s \in Slots, project_id \in Projects \cup {None}, user_id \in Users \cup {None} :
           AnalyzeStart(s, project_id, user_id)
    \/ \E s \in Slots : Post(s)
    \/ \E s \in Slots, outcome \in Outcomes, body \in Bodies : Receive(s, outcome, body)
    \/ \E s \in Slots : Compose(s)
    \/ \E s \in Slots, ok \in BOOLEAN : Acquire(s, ok)
    \/ \E s \in Slots, ok \in BOOLEAN : Insert(s, ok)
    \/ \E s \in Slots, ok \in BOOLEAN : Update(s, ok)
    \/ \E s \in Slots : Return(s)

Spec == Init /\ [][Next]_vars

\* Score composition on its own: analyze_code stands at line 544 with any
\* results dict the fan-out can leave, and no pool
ComposeSubs == {Null} \cup {Body(v) : v \in {0, 31, 49, 50, 90, 95, 100}}

InitCompose ==
    /\ app = "running"
    /\ db_pool = "None"
    /\ clock = 0
    /\ started = 1
    /\ pc = [s \in Slots |-> "compose"]
    /\ cur = [s \in Slots |-> 0]
    /\ request = [s \in Slots |-> NoRequest]
    /\ results \in [Slots -> [KindSet -> ComposeSubs]]
    /\ calls = [s \in Slots |-> [k \in KindSet |->
                   IF IsPresent(results[s][k])
                   THEN [st |-> "ok", body |-> results[s][k]]
                   ELSE [st |-> "failed", body |-> Null]]]
    /\ composed = [s \in Slots |-> NoComposed]
    /\ saved = [s \in Slots |-> "no"]
    /\ credited = [s \in Slots |-> "no"]
    /\ response = [s \in Slots |-> NoResponse]
    /\ reports = << >>
    /\ users = [u \in Users |-> [xp_total |-> 0, level |-> 1]]
    /\ last_store = NoStore
    /\ call = [fn |-> "none"]
    /\ agent = [pc |-> "idle"]

NextCompose ==
    \/ \E s \in Slots : Compose(s)
    \/ \E s \in Slots : Return(s)

SpecCompose == InitCompose /\ [][NextCompose]_vars
\* store_report on its own: any sequence of posts of payloads that differ in
\* id, score, status, the code_quality entry and the badge set
StorePayloads ==
    {[report_id     |-> id,
      overall_score |-> v,
      status        |-> Status(v),
      subs          |-> [k \in KindSet |->
                            IF k = "code_quality" THEN cq
                            ELSE IF k = "architecture" THEN Body(v) ELSE Missing],
      rpg_summary   |-> [xp_earned     |-> XpEarned(v),
                         badges_earned |-> IF IsPresent(cq) /\ cq.score >= 90
                                           THEN {"Clean Coder"} ELSE {}]] :
        id \in {1, 2}, v \in {60, 90}, cq \in {Missing, Null, Body(70), Body(90)}}

NextStore ==
    \/ \E ok \in BOOLEAN : Startup(ok)
    \/ \E report \in StorePayloads, ok \in BOOLEAN : StoreReport(report, ok)

SpecStore == Init /\ [][NextStore]_vars
\* analyze_code after an earlier run: the row a run stores whose report_id
\* is the second `now`, for the results dict res (lines 562-621)
RunRow(now, project_id, res) ==
    LET score == OverallScore(res)
    IN  [report_id     |-> now,
         project_id    |-> project_id,
         overall_score |-> score,
         status        |-> Status(score),
         scores        |-> [k \in KindSet |->
                               IF IsPresent(res[k])
                               THEN Get(res[k], ScoreField(k), k) ELSE NoScore],
         sub_reports   |-> res,
         xp_earned     |-> XpEarned(score),
         badges_earned |-> Badges(res, score)]

\* the process is serving, and an earlier run of it may have stored its
\* report in the second the clock stands at
InitRuns ==
    /\ app = "running"
    /\ db_pool \in {"open", "None"}
    /\ clock = 0
    /\ started = 0
    /\ pc = [s \in Slots |-> "idle"]
    /\ cur = [s \in Slots |-> 0]
    /\ request = [s \in Slots |-> NoRequest]
    /\ calls = [s \in Slots |-> IdleCalls]
    /\ results = [s \in Slots |-> UnsetResults]
    /\ composed = [s \in Slots |-> NoComposed]
    /\ saved = [s \in Slots |-> "no"]
    /\ credited = [s \in Slots |-> "no"]
    /\ response = [s \in Slots |-> NoResponse]
    /\ \E row \in {RunRow(0, p, [k \in KindSet |-> b]) : p \in Projects, b \in Bodies} :
           reports \in {<< >>, (0 :> row)}
    /\ \E xp \in [Users -> InitialXp] :
           users = [u \in Users |-> [xp_total |-> xp[u], level |-> calculate_level(xp[u])]]
    /\ last_store = NoStore
    /\ call = [fn |-> "none"]
    /\ agent = [pc |-> "idle"]

NextRuns ==
    \/ \E s \in Slots, project_id \in Projects \cup {None}, user_id \in Users \cup {None} :
           AnalyzeStart(s, project_id, user_id)
    \/ \E s \in Slots : Post(s)
    \/ \E s \in Slots, outcome \in Outcomes, body \in Bodies : Receive(s, outcome, body)
    \/ \E s \in Slots : Compose(s)
    \/ \E s \in Slots, ok \in BOOLEAN : Acquire(s, ok)
    \/ \E s \in Slots, ok \in BOOLEAN : Insert(s, ok)
    \/ \E s \in Slots, ok \in BOOLEAN : Update(s, ok)
    \/ \E s \in Slots : Return(s)

SpecRuns == InitRuns /\ [][NextRuns]_vars

\* Composition and persistence over the whole range of scores: analyze_code
\* stands at line 544 with one backend alone present, all four at one score,
\* or one backend at a score and the others just under the badge threshold
MaxScore == 100
JustUnderBadge == 89
OnlyKind(k, v) == [j \in KindSet |-> IF j = k THEN Body(v) ELSE Null]
AllKinds(v) == [j \in KindSet |-> Body(v)]
ScoreResults ==
    {OnlyKind(k, v) : k \in KindSet, v \in 0..MaxScore}
        \cup {AllKinds(v) : v \in 0..MaxScore}
        \cup {[j \in KindSet |-> IF j = k THEN Body(v) ELSE Body(JustUnderBadge)] :
                 k \in KindSet, v \in 0..MaxScore}

InitScores ==
    /\ app = "running"
    /\ db_pool = "open"
    /\ clock = 0
    /\ started = 1
    /\ pc = [s \in Slots |-> "compose"]
    /\ cur = [s \in Slots |-> 0]
    /\ \E project_id \in Projects \cup {None}, user_id \in Users :
           request = [s \in Slots |-> [project_id |-> project_id, user_id |-> user_id]]
    /\ results \in [Slots -> ScoreResults]
    /\ calls = [s \in Slots |-> [k \in KindSet |->
                   IF IsPresent(results[s][k])
                   THEN [st |-> "ok", body |-> results[s][k]]
                   ELSE [st |-> "failed", body |-> Null]]]
    /\ composed = [s \in Slots |-> NoComposed]
    /\ saved = [s \in Slots |-> "no"]
    /\ credited = [s \in Slots |-> "no"]
    /\ response = [s \in Slots |-> NoResponse]
    /\ reports = << >>
    /\ \E xp \in [Users -> InitialXp] :
           users = [u \in Users |-> [xp_total |-> xp[u], level |-> calculate_level(xp[u])]]
    /\ last_store = NoStore
    /\ call = [fn |-> "none"]
    /\ agent = [pc |-> "idle"]

NextScores ==
    \/ \E s \in Slots : Compose(s)
    \/ \E s \in Slots, ok \in BOOLEAN : Acquire(s, ok)
    \/ \E s \in Slots, ok \in BOOLEAN : Insert(s, ok)
    \/ \E s \in Slots, ok \in BOOLEAN : Update(s, ok)
    \/ \E s \in Slots : Return(s)

SpecScores == InitScores /\ [][NextScores]_vars

\* calculate_level on its own: any sequence of calls with an xp up to MaxXp
MaxXp == 500

CallCalculateLevel(xp) ==
    /\ call' = [fn |-> "calculate_level", arg |-> xp, ret |-> calculate_level(xp)]
    /\ UNCHANGED <<app, db_pool, clock, started, handlerVars, dbVars, last_store, agent>>

NextLevel == \E xp \in 0..MaxXp : CallCalculateLevel(xp)

InitLevel == Init /\ \A u \in Users : users[u].xp_total = 0

SpecLevel == InitLevel /\ [][NextLevel]_vars

\* extract_json_from_response on its own: one call with a text built of up to
\* MaxSegments pieces of what an LLM answers with (prose, objects, arrays, a
\* bare number, fence markers, fenced blocks whole and broken, prose longer
\* than what the sentinel keeps)
MaxSegments == 3

ObjA == <<LBrace, Key("a"), Scalar(JInt(1)), RBrace>>
ObjB == <<LBrace, Key("b"), Scalar(JInt(2)), RBrace>>
Arr == <<LBracket, Scalar(JInt(1)), RBracket>>
Num == <<Scalar(JInt(2))>>
JsonBlock(content) == <<Fence, Tag>> \o content \o <<Fence>>

RECURSIVE TextsOf(_)
TextsOf(n) ==
    IF n = 0 THEN {<< >>}
    ELSE LET shorter == TextsOf(n - 1)
             Segments ==
                 {<<Word>>, ObjA, ObjB, Arr, <<LBracket>> \o ObjA \o <<RBracket>>, Num,
                  <<Fence>>, <<Fence, Tag>>, JsonBlock(<<LBrace>>), JsonBlock(ObjB),
                  <<Prose(RawLimit + 1)>>}
         IN  shorter \cup {t \o seg : t \in shorter, seg \in Segments}

CallExtract(text) ==
    /\ call = [fn |-> "none"]
    /\ \E r \in {Extraction(text)} :
           call' = [fn |-> "extract_json_from_response", arg |-> text,
                    ret |-> r.val, strategy |-> r.strategy]
    /\ UNCHANGED <<app, db_pool, clock, started, handlerVars, dbVars, last_store, agent>>

NextExtract == \E text \in TextsOf(MaxSegments) : CallExtract(text)

SpecExtract == InitLevel /\ [][NextExtract]_vars

\* An agent's /analyze on its own: one request to any of the four backends,
\* answered from any text of AgentTexts
AgentTexts(k) ==
    LET scoreValues == {JInt(0 - 5), JInt(0), JInt(73), JInt(100), JInt(150),
                        JStr("85"), JStr("high"), JNull}
        scoreParts == {<< >>} \cup {<<Key(ScoreField(k)), Scalar(v)>> : v \in scoreValues}
        listTexts ==
            {<<LBracket, RBracket>>,
             <<LBracket, LBrace, Key("severity"), Scalar(JStr("low")), RBrace, RBracket>>,
             <<LBracket, Scalar(JStr("naming")), RBracket>>}
        listParts == {<< >>} \cup {<<Key(f)>> \o l : f \in ListFieldSet(k), l \in listTexts}
        summaryParts == {<< >>, <<Key("summary"), Scalar(JStr("ok"))>>}
        \* the JSON object the prompt asks for, with any of its parts left out
        bodies == {<<LBrace>> \o sc \o li \o su \o <<RBrace>> :
                      sc \in scoreParts, li \in listParts, su \in summaryParts}
        \* texts that are no JSON object: prose, nothing, an array, a number,
        \* null, a string, an array of the two sentinel keys, two objects with
        \* prose between
        others ==
            {<<Word>>, << >>, Arr, Num, <<Scalar(JNull)>>, <<Scalar(JStr("high"))>>,
             <<LBracket, Scalar(JStr("error")), Scalar(JStr("raw_response")), RBracket>>,
             ObjA \o <<Word>> \o ObjB}
    IN  others
            \cup bodies
            \cup {JsonBlock(b) : b \in bodies}
            \cup {<<Word>> \o b \o <<Word>> : b \in bodies}

NextAgents ==
    \/ \E k \in KindSet, ok \in BOOLEAN :
           \E text \in AgentTexts(k) : AgentGenerate(k, ok, text)
    \/ AgentAnswer

SpecAgents == InitLevel /\ [][NextAgents]_vars

\* The gateway endpoints on their own: health checks with any outcome of
\* each probe, and direct calls by any name
NextGateway ==
    \/ \E ok \in BOOLEAN : Startup(ok)
    \/ \E db_ok \in BOOLEAN, ollama \in {"200", "other", "raises"},
          probes \in [Services -> {"200", "other", "raises"}] :
           HealthCheck(db_ok, ollama, probes)
    \/ \E service_name \in Services \cup {"unknown", "health"}, outcome \in Outcomes :
           DirectAnalyze(service_name, outcome)

SpecGateway == InitLevel /\ [][NextGateway]_vars

\* Two analyze_code requests in flight for the same project and user, each
\* from line 544 on, with the results of its fan-out; a caller may post the
\* report it received back to /api/reports
InitCredit ==
    LET CreditSlots == {1, 2}
        CreditResults == {AllKinds(10), AllKinds(57), OnlyKind("code_quality", 57)}
    IN  /\ app = "running"
        /\ db_pool = "open"
        /\ clock = 0
        /\ started = 2
        /\ pc = [s \in CreditSlots |-> "compose"]
        /\ cur = [s \in CreditSlots |-> 0]
        /\ request = [s \in CreditSlots |-> [project_id |-> "p1", user_id |-> "u1"]]
        /\ results \in [CreditSlots -> CreditResults]
        /\ calls = [s \in CreditSlots |-> [k \in KindSet |->
                       IF IsPresent(results[s][k])
                       THEN [st |-> "ok", body |-> results[s][k]]
                       ELSE [st |-> "failed", body |-> Null]]]
        /\ composed = [s \in CreditSlots |-> NoComposed]
        /\ saved = [s \in CreditSlots |-> "no"]
        /\ credited = [s \in CreditSlots |-> "no"]
        /\ response = [s \in CreditSlots |-> NoResponse]
        /\ reports = << >>
        /\ \E xp \in [Users -> InitialXp] :
               users = [u \in Users |-> [xp_total |-> xp[u], level |-> calculate_level(xp[u])]]
        /\ last_store = NoStore
        /\ call = [fn |-> "none"]
        /\ agent = [pc |-> "idle"]

NextCredit ==
    \/ \E s \in DOMAIN pc : Compose(s)
    \/ \E s \in DOMAIN pc, ok \in BOOLEAN : Acquire(s, ok)
    \/ \E s \in DOMAIN pc, ok \in BOOLEAN : Insert(s, ok)
    \/ \E s \in DOMAIN pc, ok \in BOOLEAN : Update(s, ok)
    \/ \E s \in DOMAIN pc : Return(s)
    \/ \E s \in DOMAIN pc, ok \in BOOLEAN : PostBack(s, ok)

SpecCredit == InitCredit /\ [][NextCredit]_vars

\* The life of the process: startup, requests to every endpoint that uses
\* the pool (the backends of analyze_code all answering), shutdown
NextLifecycle ==
    \/ \E ok \in BOOLEAN : Startup(ok)
    \/ \E s \in Slots, project_id \in Projects \cup {None}, user_id \in Users \cup {None} :
           AnalyzeStart(s, project_id, user_id)
    \/ \E s \in Slots : Post(s)
    \/ \E s \in Slots, body \in Bodies : Receive(s, "ok", body)
    \/ \E s \in Slots : Compose(s)
    \/ \E s \in Slots, ok \in BOOLEAN : Acquire(s, ok)
    \/ \E s \in Slots, ok \in BOOLEAN : Insert(s, ok)
    \/ \E s \in Slots, ok \in BOOLEAN : Update(s, ok)
    \/ \E s \in Slots : Return(s)
    \/ Shutdown
    \/ \E ok \in BOOLEAN : DbEndpoint(ok)
    \/ \E db_ok \in BOOLEAN : HealthCheck(db_ok, "200", [n \in Services |-> "200"])
    \/ \E report \in {p \in StorePayloads : p.report_id = 1 /\ p.overall_score = 60
                                             /\ p.subs["code_quality"] = Body(70)},
          ok \in BOOLEAN : StoreReport(report, ok)

SpecLifecycle == Init /\ [][NextLifecycle]_vars

(***************************************************************************)
(* Properties.                                                             *)
(***************************************************************************)
\* the weights 0.30, 0.25, 0.20, 0.25 in hundredths
WeightPct(k) ==
    CASE k = "code_quality" -> 30
      [] k = "architecture" -> 25
      [] k = "event_loop"   -> 20
      [] k = "cost"         -> 25

Abs(n) == IF n < 0 THEN 0 - n ELSE n

\* sum over the sub-reports of res that carry a score of f(k)
RECURSIVE SumPresent(_, _, _)
SumPresent(res, f(_), i) ==
    IF i = 0 THEN 0
    ELSE (IF HasScore(res[Kinds[i]]) THEN f(Kinds[i]) ELSE 0) + SumPresent(res, f, i - 1)

\* v is the weighted average of the present scores, renormalized by the
\* weights present and rounded to a nearest integer; 0 when none is present
IsRoundedAverage(res, v) ==
    LET weighted(k) == res[k].score * WeightPct(k)
        num == SumPresent(res, weighted, Len(Kinds))
        den == SumPresent(res, WeightPct, Len(Kinds))
    IN  IF den = 0 THEN v = 0 ELSE 2 * Abs(v * den - num) <= den

\* C1: the overall_score analyze_code answers with is the weight-renormalized
\* weighted average of the present scores rounded to the nearest integer, and
\* 0 when no sub-report is present
C1_OverallIsRoundedAverage ==
    \A s \in Slots :
        response[s].kind = "report"
            => IsRoundedAverage(response[s].subs, response[s].overall_score)

Settled(s, k) == calls[s][k].st \in {"ok", "failed"}

\* C2: whatever the four calls do, analyze_code answers with a report in
\* which every backend that succeeded has the body it sent and every backend
\* that failed is null; a settled result is never changed by a later call
C2_FanOutIsolation ==
    \A s \in Slots :
        /\ response[s].kind \in {"none", "report"}
        /\ \A k \in KindSet :
               Settled(s, k) =>
                   results[s][k] = (IF calls[s][k].st = "ok" THEN calls[s][k].body ELSE Null)
        /\ pc[s] = "done" =>
               /\ response[s].kind = "report"
               /\ \A k \in KindSet :
                      /\ Settled(s, k)
                      /\ response[s].subs[k] =
                             (IF calls[s][k].st = "ok" THEN calls[s][k].body ELSE Null)

\* a finished request in which one backend failed and another answered
C2_Witness ==
    \E s \in Slots :
        /\ pc[s] = "done"
        /\ \E k1, k2 \in KindSet :
               /\ calls[s][k1].st = "failed" /\ response[s].subs[k1] = Null
               /\ calls[s][k2].st = "ok" /\ IsPresent(response[s].subs[k2])

\* C3: the four calls of one analyze_code run concurrently: while the handler
\* waits for a response, the request of every backend has been issued
C3_CallsConcurrent ==
    \A s \in Slots :
        pc[s] = "await" => \A k \in KindSet : calls[s][k].st # "idle"

\* C4: composition starts, and a report is returned, only once all four
\* backend calls have settled
C4_ComposeAfterAllSettled ==
    \A s \in Slots :
        (pc[s] \in {"compose", "acquire", "insert", "update", "return", "done"}
            \/ composed[s] # NoComposed)
            => \A k \in KindSet : Settled(s, k)

\* a request composed from a partly failed fan-out
C4_Witness ==
    \E s \in Slots :
        /\ pc[s] = "return"
        /\ composed[s].overall_score > 0
        /\ \E k \in KindSet : calls[s][k].st = "failed"

\* C5: a user's stored level is calculate_level of the stored xp_total
C5_LevelMatchesTotal ==
    \A u \in Users : users[u].level = calculate_level(users[u].xp_total)

\* C6: submitting a report_id that is already stored leaves one report with
\* that id whose overall_score and status are those of the new submission
\* (the store being available)
C6_UpsertReflectsLast ==
    (last_store.kind = "call" /\ last_store.existed
        /\ db_pool # "None" /\ last_store.db_ok)
        => /\ last_store.report.report_id \in DOMAIN reports
           /\ reports[last_store.report.report_id].overall_score
                  = last_store.report.overall_score
           /\ reports[last_store.report.report_id].status = last_store.report.status

\* C7: a store_report that succeeds on a stored report_id overwrites the
\* score, status, sub-report and badge fields, per-kind scores included
C7_UpsertOverwritesAll ==
    (last_store.kind = "call" /\ last_store.existed /\ last_store.status = "success")
        => LET row == reports[last_store.report.report_id]
               new == StoreRow(last_store.report)
           IN  /\ row.overall_score = new.overall_score
               /\ row.status = new.status
               /\ row.sub_reports = new.sub_reports
               /\ row.scores = new.scores
               /\ row.badges_earned = new.badges_earned

\* C8: with the store working, a finished analyze_code has persisted the
\* report if project_id was given and credited the user if user_id was given,
\* each independently of the other
C8_PersistAndCreditIndependently ==
    \A s \in Slots :
        (pc[s] = "done" /\ db_pool = "open"
            /\ saved[s] # "failed" /\ credited[s] # "failed")
            => /\ request[s].project_id # None => saved[s] = "inserted"
               /\ request[s].user_id # None => credited[s] = "applied"

\* C9: when analyze_code has finished, the report row and the user's credit
\* for it are both applied or both not applied
C9_WriteAndCreditAtomic ==
    \A s \in Slots :
        (pc[s] = "done" /\ request[s].project_id # None /\ request[s].user_id # None)
            => (saved[s] = "inserted" <=> credited[s] = "applied")

\* C10: when project_id is given and the report write fails, the caller
\* receives an error and not a report
C10_WriteFailurePropagates ==
    \A s \in Slots :
        (pc[s] = "done" /\ request[s].project_id # None
            /\ saved[s] \in {"failed", "duplicate"})
            => response[s].kind = "error"

\* C11: a run asked to persist, the store working, leaves one stored report
\* of its own under its report_id, also when another run got its report_id
\* in the same second
C11_OwnReportPerRun ==
    \A s \in Slots :
        (pc[s] = "done" /\ request[s].project_id # None /\ db_pool = "open"
            /\ saved[s] # "failed")
            => /\ saved[s] = "inserted"
               /\ composed[s].report_id \in DOMAIN reports
               /\ reports[composed[s].report_id] = AnalyzeRow(s)

\* C12: the status of a report is excellent iff overall_score >= 85, good
\* iff 70..84, needs_improvement iff 50..69 and critical iff <= 49
C12_StatusTiers ==
    \A s \in Slots :
        response[s].kind = "report" =>
            LET v  == response[s].overall_score
                st == response[s].status
            IN  /\ v \in 0..MaxScore
                /\ st = "excellent" <=> v >= 85
                /\ st = "good" <=> (70 <= v /\ v <= 84)
                /\ st = "needs_improvement" <=> (50 <= v /\ v <= 69)
                /\ st = "critical" <=> v <= 49

\* a report whose score is exactly the lower bound of excellent
C12_Witness ==
    \E s \in Slots :
        /\ response[s].kind = "report"
        /\ response[s].overall_score = 85
        /\ response[s].status = "excellent"

\* C14: the badge set of a report holds each kind's badge iff that kind is
\* present with its score >= 90, and "Code Legend" iff overall_score >= 95,
\* each decided on its own
C14_BadgesExact ==
    \A s \in Slots :
        response[s].kind = "report" =>
            LET got == response[s].rpg_summary.badges_earned
                sub(k) == response[s].subs[k]
            IN  /\ \A k \in KindSet :
                       BadgeName(k) \in got <=> (IsPresent(sub(k)) /\ sub(k).score >= 90)
                /\ "Code Legend" \in got <=> response[s].overall_score >= 95
                /\ got \subseteq {BadgeName(k) : k \in KindSet} \cup {"Code Legend"}
                /\ response[s].subs = OnlyKind("code_quality", 90) => got = {"Clean Coder"}
                /\ response[s].subs = AllKinds(95) => Cardinality(got) = 5

\* a report of one backend alone at 95 or more: its badge and "Code Legend"
C14_Witness ==
    \E s \in Slots :
        /\ response[s].kind = "report"
        /\ \E k \in KindSet : response[s].subs = OnlyKind(k, 96)
        /\ Cardinality(response[s].rpg_summary.badges_earned) = 2

\* C15: xp_earned is overall_score * 10 in the response, in the stored row
\* and in what the UPDATE adds to the user's xp_total
C15_XpIsTenTimesScore ==
    /\ [](\A s \in Slots :
            /\ response[s].kind = "report" =>
                   response[s].rpg_summary.xp_earned = response[s].overall_score * 10
            /\ saved[s] = "inserted" =>
                   /\ reports[composed[s].report_id].xp_earned
                          = reports[composed[s].report_id].overall_score * 10
                   /\ reports[composed[s].report_id].overall_score = composed[s].overall_score)
    /\ [][\A s \in Slots :
              (credited[s] # "applied" /\ credited'[s] = "applied") =>
                  users'[request[s].user_id].xp_total
                      = users[request[s].user_id].xp_total + composed[s].overall_score * 10]_vars

\* a user credited for a report of score 57, stored with xp_earned 570
C15_Witness ==
    \E s \in Slots :
        /\ pc[s] = "done"
        /\ credited[s] = "applied"
        /\ saved[s] = "inserted"
        /\ response[s].overall_score = 57
        /\ reports[composed[s].report_id].xp_earned = 570

\* the level of xp by thresholds 100, floor(1.5 * 100), ... in integers
RECURSIVE LevelByThresholds(_, _, _)
LevelByThresholds(level, threshold, xp) ==
    IF xp >= threshold
    THEN LevelByThresholds(level + 1, (3 * threshold) \div 2, xp - threshold)
    ELSE level

\* C13: calculate_level(0) = 1, (100) = 2, (250) = 3; the thresholds are 100
\* then floor(1.5 x previous); the loop ends after at most xp div 100 rounds;
\* and of two calls the one with the larger xp never returns the lower level
C13_LevelValuesAndMonotonic ==
    /\ [](call.fn = "calculate_level" =>
            /\ call.arg = 0 => call.ret = 1
            /\ call.arg = 100 => call.ret = 2
            /\ call.arg = 250 => call.ret = 3
            /\ call.ret = LevelByThresholds(1, 100, call.arg)
            /\ call.ret \in 1..(call.arg \div 100 + 1))
    /\ [][(call.fn = "calculate_level" /\ call'.fn = "calculate_level"
              /\ call.arg <= call'.arg) => call.ret <= call'.ret]_vars

\* calculate_level called at the second threshold
C13_Witness == call.fn = "calculate_level" /\ call.arg = 250 /\ call.ret = 3

\* the contiguous pieces of a text that are a JSON object on their own
ObjectsIn(text) ==
    {ij \in (1..Len(text)) \X (1..Len(text)) :
        /\ ij[1] <= ij[2]
        /\ \E r \in {JsonLoads(SubSeq(text, ij[1], ij[2]))} :
               r.ok /\ r.val.type = "object"}

\* C19: a text that holds a JSON object somewhere is answered with a recovered
\* value and not with the parse-failure sentinel
C19_ValidJsonRecovered ==
    call.fn = "extract_json_from_response" =>
        (ObjectsIn(call.arg) # {} => call.strategy # "none")

\* the strategies in the order the claim gives them
StrategyOrder == <<"json_fence", "fence", "object", "array", "whole">>

\* what strategy n hands to json.loads
StrategyBlocks(text, n) ==
    CASE n = 1 -> FenceBlocks(text, 1, TRUE)
      [] n = 2 -> FenceBlocks(text, 1, FALSE)
      [] n = 3 -> GreedySpan(text, "lbrace", "rbrace")
      [] n = 4 -> GreedySpan(text, "lbracket", "rbracket")
      [] n = 5 -> <<text>>

\* the blocks of strategy n that parse, by their index
ParsingBlocks(text, n) ==
    {i \in 1..Len(StrategyBlocks(text, n)) : JsonLoads(StrategyBlocks(text, n)[i]).ok}

Least(S) == CHOOSE i \in S : \A j \in S : i <= j

\* C20: the result is the parse of the first block that parses of the first
\* strategy, in the order json-tagged fence, any fence, {...} span, [...]
\* span, whole text, that has one; blocks that do not parse are passed over;
\* the sentinel is returned only when no block of any strategy parses
C20_FirstParsingStrategyWins ==
    call.fn = "extract_json_from_response" =>
        LET text == call.arg
            able == {n \in 1..Len(StrategyOrder) : ParsingBlocks(text, n) # {}}
        IN  IF able = {} THEN call.strategy = "none"
            ELSE /\ call.strategy = StrategyOrder[Least(able)]
                 /\ \E b \in {StrategyBlocks(text, Least(able))[Least(ParsingBlocks(text, Least(able)))]} :
                        \E r \in {JsonLoads(b)} :
                            /\ call.ret.type = r.val.type
                            /\ call.ret = r.val

\* a raw object, then a json-tagged fence holding another: the fence wins
C20_Witness ==
    /\ call.fn = "extract_json_from_response"
    /\ call.arg = ObjA \o JsonBlock(ObjB)
    /\ call.strategy = "json_fence"
    /\ call.ret.type = "object"
    /\ call.ret.fields = ("b" :> JInt(2))

\* the handler has answered a text the LLM call returned
Answered == agent.pc = "answered" /\ agent.generated

\* all entries of the lists of an answer
AllEntries(answer) ==
    {<<f, i>> \in UNION {{f} \X (1..Len(answer.lists[f])) : f \in DOMAIN answer.lists} : TRUE}

\* C16: when the parser returned the sentinel, each backend answers 200 with
\* score 50, exactly one entry in its lists, of type analysis_error and
\* severity medium, and the parsing-error summary
C16_DegradedAnswer ==
    (Answered /\ agent.parsed.type = "object" /\ agent.parsed = Sentinel(agent.raw_response)) =>
        /\ agent.answer.status = 200
        /\ agent.answer.score = 50
        /\ agent.answer.summary = "Analysis incomplete due to parsing error"
        /\ Cardinality(AllEntries(agent.answer)) = 1
        /\ \A e \in AllEntries(agent.answer) :
               LET entry == agent.answer.lists[e[1]][e[2]]
               IN  /\ {"type", "severity"} \subseteq DOMAIN entry
                   /\ entry.type = "analysis_error"
                   /\ entry.severity = "medium"

\* C17: every text the LLM call returns is answered with status 200
C17_LlmTextNeverFails == Answered => agent.answer.status = 200

\* an LLM body whose list fields, where given, are lists of objects
WellFormed(k, parsed) ==
    /\ parsed.type = "object"
    /\ ~({"error", "raw_response"} \subseteq DOMAIN parsed.fields)
    /\ \A f \in ListFieldSet(k) :
           f \in DOMAIN parsed.fields =>
               /\ parsed.fields[f].type = "array"
               /\ \A i \in 1..Len(parsed.fields[f].items) :
                      parsed.fields[f].items[i].type = "object"

\* C18: a well-formed body with an integer score v is answered with the score
\* v brought into 0..100, one without a score with 50, and never rejected;
\* every score a backend answers with lies in 0..100
C18_ScoreClamped ==
    Answered =>
        /\ agent.answer.status = 200 => agent.answer.score \in 0..100
        /\ WellFormed(agent.kind, agent.parsed) =>
               LET key == ScoreField(agent.kind)
                   fields == agent.parsed.fields
               IN  /\ key \notin DOMAIN fields =>
                          agent.answer.status = 200 /\ agent.answer.score = 50
                   /\ (key \in DOMAIN fields /\ fields[key].type = "int") =>
                          /\ agent.answer.status = 200
                          /\ agent.answer.score =
                                 (IF fields[key].int < 0 THEN 0
                                  ELSE IF fields[key].int > 100 THEN 100
                                  ELSE fields[key].int)

\* a body that reports 150 is answered with 100
C18_Witness ==
    /\ Answered
    /\ WellFormed(agent.kind, agent.parsed)
    /\ ScoreField(agent.kind) \in DOMAIN agent.parsed.fields
    /\ agent.parsed.fields[ScoreField(agent.kind)].type = "int"
    /\ agent.parsed.fields[ScoreField(agent.kind)].int = 150
    /\ agent.answer.status = 200
    /\ agent.answer.score = 100

\* the characters a text counts
Chars(text) ==
    IF Len(text) = 0 THEN 0
    ELSE LET width(i) == IF "n" \in DOMAIN text[i] THEN text[i].n ELSE 1
             sum[i \in 0..Len(text)] == IF i = 0 THEN 0 ELSE sum[i - 1] + width(i)
         IN  sum[Len(text)]

\* r is the start of text: some lexemes of it and then, if a stretch of prose
\* follows, a part of that stretch
IsPrefix(r, text) ==
    \E j \in 0..Len(text) :
        \/ r = SubSeq(text, 1, j)
        \/ /\ j < Len(text)
           /\ "n" \in DOMAIN text[j + 1]
           /\ \E m \in 1..text[j + 1].n : r = SubSeq(text, 1, j) \o <<Prose(m)>>

\* C21: when no block of any strategy parses, the value returned is
\* {error: "parse_failed", raw_response: r} with r the first 500 characters
\* of the text
C21_SentinelShape ==
    (call.fn = "extract_json_from_response"
        /\ \A n \in 1..Len(StrategyOrder) : ParsingBlocks(call.arg, n) = {}) =>
        /\ call.ret.type = "object"
        /\ DOMAIN call.ret.fields = {"error", "raw_response"}
        /\ call.ret.fields.raw_response.type = "str"
        /\ Chars(call.ret.fields.raw_response.text) <= 500
        /\ IsPrefix(call.ret.fields.raw_response.text, call.arg)
        /\ call.ret.fields.error = JStr("parse_failed")

\* C22: a store_report call made without a pool, or whose write raises,
\* answers with status warning or error and leaves the stored reports as
\* they were
C22_StoreBestEffort ==
    [][(app = "running" /\ last_store'.kind = "call"
          /\ (db_pool = "None" \/ ~last_store'.db_ok \/ StoreRaises(last_store'.report))) =>
            /\ last_store'.status \in {"warning", "error"}
            /\ reports' = reports]_vars

\* a write that raised for a report stored before
C22_Witness ==
    /\ last_store.kind = "call"
    /\ db_pool = "open"
    /\ ~last_store.db_ok
    /\ last_store.existed
    /\ last_store.status = "error"
    /\ reports # << >>

\* C23: /health answers critical iff every backend is unavailable, whatever
\* the database; otherwise degraded iff the database is not healthy, else
\* healthy
C23_HealthTiers ==
    call.fn = "health_check" =>
        LET allDown == \A n \in Services : call.ret.mcps[n] = "unavailable"
        IN  /\ DOMAIN call.ret.mcps = Services
            /\ call.ret.status = "critical" <=> allDown
            /\ ~allDown =>
                   call.ret.status =
                       (IF call.ret.database # "healthy" THEN "degraded" ELSE "healthy")

\* every backend unavailable while the database is healthy
C23_Witness ==
    /\ call.fn = "health_check"
    /\ call.ret.database = "healthy"
    /\ \A n \in Services : call.ret.mcps[n] = "unavailable"
    /\ call.ret.status = "critical"

\* C24: a direct call by a name that is not a configured backend is answered
\* with a 4xx status and no request is sent to any backend
C24_UnknownServiceRejected ==
    (call.fn = "direct_mcp_analyze" /\ call.arg \notin Services) =>
        /\ call.ret \in 400..499
        /\ ~call.sent

\* a direct call by an unknown name
C24_Witness ==
    /\ call.fn = "direct_mcp_analyze"
    /\ call.arg = "unknown"
    /\ call.ret = 404

\* C25: no step lowers the stored level of a user
C25_LevelNeverDecreases ==
    [][\A u \in Users : users'[u].level >= users[u].level]_vars

\* the XP of the requests of S
RECURSIVE SumXpEarned(_)
SumXpEarned(S) ==
    IF S = {} THEN 0
    ELSE LET s == CHOOSE x \in S : TRUE
         IN  composed[s].xp_earned + SumXpEarned(S \ {s})

\* C26: whatever the interleaving of the requests, every step adds to a
\* user's xp_total the xp_earned of the requests whose credit ran in it and
\* nothing else, so the total is the initial one plus the xp_earned of every
\* credit that ran, and it never decreases
C26_NoCreditLost ==
    /\ [](\A u \in Users : \E initial \in InitialXp :
            users[u].xp_total
                = initial + SumXpEarned({s \in DOMAIN pc :
                                            credited[s] = "applied" /\ request[s].user_id = u}))
    /\ [][\A u \in Users :
            /\ users'[u].xp_total
                   = users[u].xp_total
                         + SumXpEarned({s \in DOMAIN pc :
                                           /\ credited[s] # "applied"
                                           /\ credited'[s] = "applied"
                                           /\ request[s].user_id = u})
            /\ users'[u].xp_total >= users[u].xp_total]_vars

\* two requests that were in flight together and earned different XP have
\* both credited the user, one of them not having returned yet
C26_Witness ==
    /\ \A s \in DOMAIN pc : credited[s] = "applied"
    /\ \E s \in DOMAIN pc : pc[s] \in {"update", "return"}
    /\ \E s, t \in DOMAIN pc : s # t /\ composed[s].xp_earned # composed[t].xp_earned

\* C27: a report analyze_code returned with a backend absent, posted as it
\* is to a store that works, is stored and answered with status success
C27_AbsentSubReportStored ==
    (last_store.kind = "call" /\ db_pool = "open" /\ last_store.db_ok
        /\ \E k \in KindSet : last_store.report.subs[k] = Null) =>
        /\ last_store.status = "success"
        /\ last_store.report.report_id \in DOMAIN reports

\* C28: the row store_report inserts holds, for each sub-report present, the
\* score that sub-report carries under the field name of its kind
C28_StoredScoresByKind ==
    (last_store.kind = "call" /\ last_store.status = "success" /\ ~last_store.existed) =>
        \A k \in KindSet :
            IsPresent(last_store.report.subs[k]) =>
                reports[last_store.report.report_id].scores[k]
                    = last_store.report.subs[k].score

\* C29: generate makes at most 3 attempts; once an attempt has returned a
\* text no further attempt is made and that text is what the handler parses;
\* only the failure of the third attempt ends the call, and the handler then
\* answers 500, not the degraded answer
C29_ThreeAttempts ==
    /\ [](agent.pc # "idle" =>
            /\ agent.attempts \in 1..3
            /\ (agent.pc = "answered" /\ ~agent.generated) =>
                   agent.attempts = 3 /\ agent.answer.status = 500
            /\ agent.pc = "generating" => ~agent.generated)
    /\ [][(agent.pc # "idle" /\ agent.generated) =>
              /\ agent'.attempts = agent.attempts
              /\ agent'.raw_response = agent.raw_response
              /\ agent'.generated]_vars

\* three attempts have failed
C29_Witness ==
    /\ agent.pc = "answered"
    /\ ~agent.generated
    /\ agent.attempts = 3
    /\ agent.answer.status = 500

\* C30: no pool exists before startup or is open after shutdown; a pool that
\* could not be created stays absent; analyze_code holds or asks for a
\* connection only while the pool is open and has written nothing without
\* one; store_report, the database endpoints and /health answer warning, 503
\* and "unavailable" without a pool and touch it only while it is open
C30_PoolLifecycle ==
    /\ [](/\ app = "starting" => db_pool = "None"
          /\ db_pool = "open" => app = "running"
          /\ \A s \in Slots :
                 /\ pc[s] \in {"acquire", "insert", "update"} => db_pool = "open"
                 /\ (app = "running" /\ db_pool = "None") =>
                        saved[s] = "no" /\ credited[s] = "no"
          /\ call.fn = "db_endpoint" =>
                 /\ call.acquired => call.arg = "open"
                 /\ call.arg = "None" => call.ret = 503
          /\ (call.fn = "health_check" /\ call.arg # "open") =>
                 call.arg = "None" /\ call.ret.database = "unavailable")
    /\ [][/\ (app # "starting" /\ db_pool = "None") => db_pool' = "None"
          /\ db_pool = "closed" => (db_pool' = "closed" /\ UNCHANGED <<handlerVars, dbVars, last_store, call>>)
          /\ last_store' # last_store =>
                 \/ db_pool = "open"
                 \/ db_pool = "None" /\ last_store'.status = "warning" /\ reports' = reports]_vars

\* the pool could not be created, and a request with a project has been
\* answered without a write
C30_Witness ==
    /\ app = "stopped"
    /\ db_pool = "None"
    /\ \E s \in Slots :
           pc[s] = "done" /\ request[s].project_id # None /\ saved[s] = "no"

====
